---- MODULE Spec2Model ----
(***************************************************************************)
(* The SageMaker notebook 24_train_bloom_peft_lora, run top to bottom.     *)
(*                                                                         *)
(* The preprocessing cell tokenizes the dataset and folds chunk() over its *)
(* batches with the global `remainder`; the later cells upload the result, *)
(* run the training job, deploy an endpoint, query it and delete it.  A    *)
(* cell that raises stops the run: the cells after it are not executed.    *)
(*                                                                         *)
(* Token ids are numbered by their position in the token stream.  chunk()  *)
(* never inspects a token's value, and distinct ids make every drop,       *)
(* duplication or reordering of tokens visible.                            *)
(***************************************************************************)
EXTENDS Integers, Sequences, FiniteSets, TLC

\* chunk_length, 1536 in the notebook (partial(chunk, chunk_length=1536)), scaled down
ChunkLength == 2
\* rows of the training split
MaxRows == 4
\* tokens of one tokenized row
MaxSampleLen == 2
\* rows of the test split
TestRows == 2
\* rows of the dataset when the attention masks are drawn freely
MaxAlignRows == 3
\* symbols of a dialogue or of a summary
MaxTextLen == 2

VARIABLES
    pc,              \* the statement the run executes next
    error,           \* the exception that stopped the run, "none" while it runs
    dataset,         \* the tokenized training split, one row per sample
    fed,             \* rows of dataset handed to chunk calls that returned
    sample,          \* the batch map() passes to chunk
    remainder,       \* the global remainder
    result,          \* what the last chunk call returned
    lm_dataset,      \* the rows map() has collected from chunk's results
    entry_remainder, \* the remainder as the last chunk call found it
    old_lists,       \* what the list objects of that remainder hold after the call
    log,             \* the service calls issued so far, in order
    job,             \* the training job
    model,           \* the SageMaker model
    endpoint,        \* the SageMaker endpoint
    prompt_template, \* the global prompt_template
    raw,             \* a sample of the samsum dataset: its dialogue and its summary
    text,            \* sample["text"] as template_dataset builds it
    inputs           \* formatted_sample["inputs"] as the test cell builds it

vars == <<pc, error, dataset, fed, sample, remainder, result, lm_dataset,
          entry_remainder, old_lists, log, job, model, endpoint,
          prompt_template, raw, text, inputs>>

chunkVars == <<dataset, fed, sample, remainder, result, lm_dataset,
               entry_remainder, old_lists>>
serviceVars == <<log, job, model, endpoint>>
promptVars == <<prompt_template, raw, text, inputs>>

----------------------------------------------------------------------------
(* Python helpers *)

Min(a, b) == IF a < b THEN a ELSE b

\* t[i:j] for 0 <= i: the elements at 0-based positions i .. j-1, clipped to len(t)
PySlice(t, i, j) == SubSeq(t, i + 1, Min(j, Len(t)))

\* t[i:]
PySliceFrom(t, i) == SubSeq(t, i + 1, Len(t))

\* list(range(0, stop, step))
PyRange(stop, step) == [n \in 1..((stop + step - 1) \div step) |-> (n - 1) * step]

\* random.randint(a, b): an integer N with a <= N <= b
randint(a, b) == a..b

\* d[i] on a dataset of n rows, for i >= 0: the row exists iff i < n
ValidIndex(i, n) == i >= 0 /\ i < n

\* list(chain(*lists))
RECURSIVE chain(_)
chain(lists) == IF lists = <<>> THEN <<>> ELSE Head(lists) \o chain(Tail(lists))

----------------------------------------------------------------------------
(* The tokenized dataset and its batches *)

Keys == {"input_ids", "attention_mask"}

\* the key whose length chunk measures: list(sample.keys())[0]
FirstKey == "input_ids"

RECURSIVE Offset(_, _)
Offset(lens, i) == IF i = 0 THEN 0 ELSE lens[i] + Offset(lens, i - 1)

\* tokenizer(sample["text"]) on every row: input ids and an all-ones attention
\* mask of the same length
tokenizer(lens) ==
    [i \in DOMAIN lens |->
        [input_ids      |-> [p \in 1..lens[i] |-> Offset(lens, i - 1) + p],
         attention_mask |-> [p \in 1..lens[i] |-> 1]]]

\* the batch of rows from..to as map(batched=True) passes it: one list of lists per key
Batch(d, from, to) == [k \in Keys |-> [i \in 1..(to - from + 1) |-> d[from + i - 1][k]]]

NoBatch == [k \in Keys |-> <<>>]

\* remainder = {"input_ids": [], "attention_mask": []}
EmptyRemainder == [k \in Keys |-> <<>>]

NoResult == [input_ids |-> <<>>, attention_mask |-> <<>>, labels |-> <<>>]

\* no sample of the raw dataset at hand
NoSample == [dialogue |-> <<>>, summary |-> <<>>]

----------------------------------------------------------------------------
(* chunk *)

\* the attention mask's lists ahead of the remainder, the other keys behind it
ConcatenateMaskBatchFirst(s, rem) ==
    [k \in Keys |-> IF k = "attention_mask" THEN chain(s[k]) \o rem[k]
                                            ELSE rem[k] \o chain(s[k])]

\* the batch's lists ahead of the remainder
ConcatenateBatchFirst(s, rem) == [k \in Keys |-> chain(s[k]) \o rem[k]]

\* concatenated_examples: the batch's lists chained, behind the remainder
Concatenate(s, rem) == [k \in Keys |-> rem[k] \o chain(s[k])]

\* batch_chunk_length without the rounding down to a multiple of chunk_length
BatchChunkLengthUnrounded(total, L) == total

\* batch_chunk_length one block short
BatchChunkLengthOneLess(total, L) == ((total \div L) - 1) * L

\* batch_chunk_length, where it is assigned
BatchChunkLength(total, L) == (total \div L) * L

\* [t[i : i + chunk_length] for i in range(0, batch_chunk_length, chunk_length)]
SplitBlocks(t, bcl, L) ==
    LET r == PyRange(bcl, L) IN [n \in DOMAIN r |-> PySlice(t, r[n], r[n] + L)]

\* the remainder sliced one position late
NewRemainderDropsToken(cat, bcl) == [k \in Keys |-> PySliceFrom(cat[k], bcl + 1)]

\* {k: concatenated_examples[k][batch_chunk_length:] for k in ...}
NewRemainder(cat, bcl) == [k \in Keys |-> PySliceFrom(cat[k], bcl)]

\* labels shifted by one position inside each block
LabelsShifted(blocks) == [n \in 1..Len(blocks) |-> Tail(blocks[n])]

\* result["input_ids"].copy()
Labels(blocks) == [n \in 1..Len(blocks) |-> blocks[n]]

\* remainder[k] extended in place (remainder[k] += ...)
OldListsAfterExtend(rem, cat) == cat

\* The lists of the previous remainder after the call: remainder[k] + ... builds
\* a new list and leaves both operands as they were.
OldListsAfter(rem, cat) == rem

\* The batch's lists after the call: chain(*sample[k]) only reads them.
SampleAfter(s) == s

\* chunk(sample, chunk_length) with the global remainder rem.  batch_chunk_length
\* is assigned only when batch_total_length >= chunk_length; otherwise the first
\* use of it raises NameError (UnboundLocalError) and remainder is not rebound.
chunk(s, rem, L) ==
    LET cat   == Concatenate(s, rem)
        total == Len(cat[FirstKey])
        bcl   == BatchChunkLength(total, L)
        blocks == [k \in Keys |-> SplitBlocks(cat[k], bcl, L)]
    IN  IF total >= L
        THEN [raised    |-> FALSE,
              result    |-> [input_ids      |-> blocks["input_ids"],
                             attention_mask |-> blocks["attention_mask"],
                             labels         |-> Labels(blocks["input_ids"])],
              remainder |-> NewRemainder(cat, bcl),
              old_lists |-> OldListsAfter(rem, cat),
              sample    |-> SampleAfter(s)]
        ELSE [raised    |-> TRUE,
              result    |-> NoResult,
              remainder |-> rem,
              old_lists |-> rem,
              sample    |-> SampleAfter(s)]

----------------------------------------------------------------------------
(* The run *)

\* the deployment cell ahead of the training cell
CellAfterDeployFirst(c) ==
    CASE c = "upload"          -> "deploy"
      [] c = "deploy"          -> "fit"
      [] c = "fit"             -> "test"
      [] c = "test"            -> "delete_model"
      [] c = "delete_model"    -> "delete_endpoint"
      [] c = "delete_endpoint" -> "done"

\* The order of the notebook's statements that touch the services.
CellAfter(c) ==
    CASE c = "upload"          -> "fit"
      [] c = "fit"             -> "deploy"
      [] c = "deploy"          -> "test"
      [] c = "test"            -> "delete_model"
      [] c = "delete_model"    -> "delete_endpoint"
      [] c = "delete_endpoint" -> "done"

Init ==
    /\ pc = "print_sample"
    /\ error = "none"
    /\ \E n \in 1..MaxRows : \E lens \in [1..n -> 1..MaxSampleLen] :
          dataset = tokenizer(lens)
    /\ fed = 0
    /\ sample = NoBatch
    /\ remainder = EmptyRemainder
    /\ result = NoResult
    /\ lm_dataset = NoResult
    /\ entry_remainder = EmptyRemainder
    /\ old_lists = EmptyRemainder
    /\ log = <<>>
    /\ job = "none"
    /\ model = "none"
    /\ endpoint = "none"
    /\ prompt_template = <<>>
    /\ raw = NoSample
    /\ text = <<>>
    /\ inputs = <<>>

Halt(e) == pc' = "halted" /\ error' = e

\* print(dataset[randint(0, len(dataset))]["text"])
PrintSample ==
    /\ pc = "print_sample"
    /\ \E i \in randint(0, Len(dataset)) :
          IF ValidIndex(i, Len(dataset))
          THEN pc' = "fetch" /\ error' = error
          ELSE Halt("IndexError")
    /\ UNCHANGED <<chunkVars, serviceVars>>
    /\ UNCHANGED promptVars

\* map(..., batched=True) takes the next rows as one batch
Fetch ==
    /\ pc = "fetch"
    /\ fed < Len(dataset)
    /\ \E b \in 1..(Len(dataset) - fed) : sample' = Batch(dataset, fed + 1, fed + b)
    /\ pc' = "call"
    /\ UNCHANGED <<error, dataset, fed, remainder, result, lm_dataset,
                   entry_remainder, old_lists, serviceVars>>
    /\ UNCHANGED promptVars

\* map() calls chunk on the batch and collects the rows it returns
ChunkCall ==
    /\ pc = "call"
    /\ LET out == chunk(sample, remainder, ChunkLength) IN
          /\ entry_remainder' = remainder
          /\ old_lists' = out.old_lists
          /\ sample' = out.sample
          /\ remainder' = out.remainder
          /\ IF out.raised
             THEN /\ Halt("NameError")
                  /\ UNCHANGED <<fed, result, lm_dataset>>
             ELSE /\ pc' = "fetch"
                  /\ error' = error
                  /\ fed' = fed + Len(sample[FirstKey])
                  /\ result' = out.result
                  /\ lm_dataset' =
                        [k \in DOMAIN lm_dataset |-> lm_dataset[k] \o out.result[k]]
    /\ UNCHANGED <<dataset, serviceVars>>
    /\ UNCHANGED promptVars

\* the last batch is done: the cell ends and the next cell runs
MapDone ==
    /\ pc = "fetch"
    /\ fed = Len(dataset)
    /\ pc' = "upload"
    /\ UNCHANGED <<error, chunkVars, serviceVars>>
    /\ UNCHANGED promptVars

\* lm_dataset.save_to_disk(training_input_path)
SaveToDisk ==
    /\ pc = "upload"
    /\ log' = Append(log, "save_to_disk")
    /\ \E ok \in BOOLEAN :
          IF ok THEN pc' = CellAfter("upload") /\ error' = error
                ELSE Halt("ServiceError")
    /\ UNCHANGED <<chunkVars, job, model, endpoint>>
    /\ UNCHANGED promptVars

\* huggingface_estimator.fit(data, wait=True)
Fit ==
    /\ pc = "fit"
    /\ log' = Append(log, "fit")
    /\ \E ok \in BOOLEAN :
          IF ok THEN pc' = CellAfter("fit") /\ error' = error /\ job' = "Completed"
                ELSE Halt("ServiceError") /\ job' = "Failed"
    /\ UNCHANGED <<chunkVars, model, endpoint>>
    /\ UNCHANGED promptVars

\* HuggingFaceModel(model_data=huggingface_estimator.model_data, ...).deploy(...)
Deploy ==
    /\ pc = "deploy"
    /\ log' = Append(log, "deploy")
    /\ \E ok \in BOOLEAN :
          IF ok THEN /\ pc' = CellAfter("deploy") /\ error' = error
                     /\ model' = "created" /\ endpoint' = "InService"
                ELSE /\ Halt("ServiceError")
                     /\ UNCHANGED <<model, endpoint>>
    /\ UNCHANGED <<chunkVars, job>>
    /\ UNCHANGED promptVars

\* sample = test_dataset[randint(0, len(test_dataset))], then
\* predictor.predict(formatted_sample) and the parsing of its answer
Test ==
    /\ pc = "test"
    /\ \E i \in randint(0, TestRows) :
          IF ValidIndex(i, TestRows)
          THEN /\ log' = Append(log, "predict")
               /\ \E ok \in BOOLEAN :
                     IF ok THEN pc' = CellAfter("test") /\ error' = error
                           ELSE Halt("ServiceError")
          ELSE /\ Halt("IndexError")
               /\ log' = log
    /\ UNCHANGED <<chunkVars, job, model, endpoint>>
    /\ UNCHANGED promptVars

\* predictor.delete_model()
DeleteModel ==
    /\ pc = "delete_model"
    /\ log' = Append(log, "delete_model")
    /\ \E ok \in BOOLEAN :
          IF ok THEN pc' = CellAfter("delete_model") /\ error' = error
                     /\ model' = "deleted"
                ELSE Halt("ServiceError") /\ model' = model
    /\ UNCHANGED <<chunkVars, job, endpoint>>
    /\ UNCHANGED promptVars

\* predictor.delete_endpoint()
DeleteEndpoint ==
    /\ pc = "delete_endpoint"
    /\ log' = Append(log, "delete_endpoint")
    /\ \E ok \in BOOLEAN :
          IF ok THEN pc' = CellAfter("delete_endpoint") /\ error' = error
                     /\ endpoint' = "deleted"
                ELSE Halt("ServiceError") /\ endpoint' = endpoint
    /\ UNCHANGED <<chunkVars, job, model>>
    /\ UNCHANGED promptVars

Next ==
    \/ PrintSample
    \/ Fetch
    \/ ChunkCall
    \/ MapDone
    \/ SaveToDisk
    \/ Fit
    \/ Deploy
    \/ Test
    \/ DeleteModel
    \/ DeleteEndpoint

Spec == Init /\ [][Next]_vars

----------------------------------------------------------------------------
(* chunk folded over samples whose attention masks hold any values *)

\* the values an attention mask holds
MaskBits == {0, 1}

\* rows whose input ids are numbered by stream position and whose attention
\* masks are the given ones, of the same lengths
TokenizedWithMasks(masks) ==
    LET rows == tokenizer([i \in DOMAIN masks |-> Len(masks[i])])
    IN  [i \in DOMAIN masks |->
            [input_ids |-> rows[i]["input_ids"], attention_mask |-> masks[i]]]

\* the state in which map() starts calling chunk
InitAlign ==
    /\ pc = "fetch"
    /\ error = "none"
    /\ \E n \in 1..MaxAlignRows :
          \E masks \in [1..n -> UNION {[1..l -> MaskBits] : l \in 1..MaxSampleLen}] :
             dataset = TokenizedWithMasks(masks)
    /\ fed = 0
    /\ sample = NoBatch
    /\ remainder = EmptyRemainder
    /\ result = NoResult
    /\ lm_dataset = NoResult
    /\ entry_remainder = EmptyRemainder
    /\ old_lists = EmptyRemainder
    /\ log = <<>>
    /\ job = "none"
    /\ model = "none"
    /\ endpoint = "none"
    /\ prompt_template = <<>>
    /\ raw = NoSample
    /\ text = <<>>
    /\ inputs = <<>>

NextAlign ==
    \/ Fetch
    \/ ChunkCall
    \/ MapDone

SpecAlign == InitAlign /\ [][NextAlign]_vars

----------------------------------------------------------------------------
(* The prompt templates.  A string is the sequence of its symbols; the fixed *)
(* parts of the templates are one symbol each.                               *)

\* "Summarize the chat dialogue:\n"
Header == "Summarize the chat dialogue:\n"

\* "\n---\nSummary:\n"
Separator == "\n---\nSummary:\n"

\* tokenizer.eos_token of bigscience/bloomz-7b1
EosToken == "</s>"

\* a literal part and a replacement field {name} of a format string
Lit(s) == [kind |-> "lit", val |-> s]
Field(n) == [kind |-> "field", val |-> n]

\* f"Summarize the chat dialogue:\n{{dialogue}}\n---\nSummary:\n{{summary}}{{eos_token}}"
TrainTemplate ==
    <<Lit(Header), Field("dialogue"), Lit(Separator), Field("summary"),
      Field("eos_token")>>

\* the inference template with another separator
InferenceTemplateOtherSeparator ==
    <<Lit(Header), Field("dialogue"), Lit("\n---\nSummary: ")>>

\* f"Summarize the chat dialogue:\n{{dialogue}}\n---\nSummary:\n"
InferenceTemplate == <<Lit(Header), Field("dialogue"), Lit(Separator)>>

\* the names of the replacement fields of a format string
Fields(t) == {t[i].val : i \in {j \in DOMAIN t : t[j].kind = "field"}}

\* str.format(**args): literal parts as they are, every field replaced by its
\* argument, which is not scanned again
RECURSIVE format(_, _)
format(t, args) ==
    IF t = <<>> THEN <<>>
    ELSE (IF Head(t).kind = "lit" THEN <<Head(t).val>> ELSE args[Head(t).val])
         \o format(Tail(t), args)

\* what a dialogue or a summary is made of: ordinary text, and text that reads
\* like the template's separator or like the eos token
TextSymbols == {"a", Separator, EosToken}

Texts == UNION {[1..l -> TextSymbols] : l \in 0..MaxTextLen}

InitPrompt ==
    /\ pc = "bind_template"
    /\ error = "none"
    /\ dataset = <<>>
    /\ fed = 0
    /\ sample = NoBatch
    /\ remainder = EmptyRemainder
    /\ result = NoResult
    /\ lm_dataset = NoResult
    /\ entry_remainder = EmptyRemainder
    /\ old_lists = EmptyRemainder
    /\ log = <<>>
    /\ job = "none"
    /\ model = "none"
    /\ endpoint = "none"
    /\ prompt_template = <<>>
    /\ \E d \in Texts : \E sm \in Texts : raw = [dialogue |-> d, summary |-> sm]
    /\ text = <<>>
    /\ inputs = <<>>

\* prompt_template = f"...{{summary}}{{eos_token}}" in the preprocessing cell
BindTrainTemplate ==
    /\ pc = "bind_template"
    /\ prompt_template' = TrainTemplate
    /\ pc' = "template_dataset"
    /\ UNCHANGED <<error, chunkVars, serviceVars, raw, text, inputs>>

\* template_dataset(sample)
TemplateDataset ==
    /\ pc = "template_dataset"
    /\ LET args == [dialogue  |-> raw.dialogue,
                    summary   |-> raw.summary,
                    eos_token |-> <<EosToken>>]
       IN  IF Fields(prompt_template) \subseteq DOMAIN args
           THEN text' = format(prompt_template, args) /\ pc' = "bind_prompt"
                /\ error' = error
           ELSE text' = text /\ Halt("KeyError")
    /\ UNCHANGED <<chunkVars, serviceVars, prompt_template, raw, inputs>>

\* prompt_template = f"...Summary:\n" in the test cell
BindInferenceTemplate ==
    /\ pc = "bind_prompt"
    /\ prompt_template' = InferenceTemplate
    /\ pc' = "format_sample"
    /\ UNCHANGED <<error, chunkVars, serviceVars, raw, text, inputs>>

\* "inputs": prompt_template.format(dialogue=sample["dialogue"])
FormatSample ==
    /\ pc = "format_sample"
    /\ LET args == [dialogue |-> raw.dialogue]
       IN  IF Fields(prompt_template) \subseteq DOMAIN args
           THEN inputs' = format(prompt_template, args) /\ pc' = "formatted"
                /\ error' = error
           ELSE inputs' = inputs /\ Halt("KeyError")
    /\ UNCHANGED <<chunkVars, serviceVars, prompt_template, raw, text>>

NextPrompt ==
    \/ BindTrainTemplate
    \/ TemplateDataset
    \/ BindInferenceTemplate
    \/ FormatSample

SpecPrompt == InitPrompt /\ [][NextPrompt]_vars

----------------------------------------------------------------------------
(* Properties *)

\* the last batch fetched has been through chunk (by return or by exception)
CallFinished == sample # NoBatch /\ pc # "call"

\* ... and chunk returned
CallReturned == CallFinished /\ error # "NameError"

\* the token ids of rows 1..n of d, in order
Stream(d, n) == chain(Batch(d, 1, n)["input_ids"])

IsPrefix(s, t) == Len(s) <= Len(t) /\ SubSeq(t, 1, Len(s)) = s

Increasing(s) == \A i \in 1..(Len(s) - 1) : s[i] < s[i + 1]

In(e) == \E i \in DOMAIN log : log[i] = e

Pos(e) == CHOOSE i \in DOMAIN log : log[i] = e

Before(a, b) == In(a) /\ In(b) /\ Pos(a) < Pos(b)

\* C1: token conservation.  The emitted input_ids blocks, concatenated in
\* emission order and followed by the remainder, are exactly the tokens of the
\* batches the returned chunk calls were given, in order.
C1_TokenConservation ==
    chain(lm_dataset["input_ids"]) \o remainder["input_ids"] = Stream(dataset, fed)

C1_Witness ==
    /\ CallReturned
    /\ entry_remainder["input_ids"] # <<>>
    /\ lm_dataset["input_ids"] # <<>>
    /\ remainder["input_ids"] # <<>>

AllBlocksFull(r) ==
    \A k \in DOMAIN r : \A n \in DOMAIN r[k] : Len(r[k][n]) = ChunkLength

\* C2: every block chunk emits, under every key (input_ids, attention_mask,
\* labels), has length exactly chunk_length.
C2_BlockLength == AllBlocksFull(result) /\ AllBlocksFull(lm_dataset)

C2_Witness ==
    /\ CallReturned
    /\ entry_remainder["input_ids"] # <<>>
    /\ Len(result["input_ids"]) >= 2
    /\ Len(result["attention_mask"]) >= 2

\* C3: chunk is total on short batches.  When the carried remainder plus the
\* batch holds fewer than chunk_length tokens, the call completes without error,
\* emits no block, and the new remainder is the whole combined sequence.
C3_ShortBatchTotal ==
    (/\ CallFinished
     /\ Len(entry_remainder[FirstKey]) + Len(chain(sample[FirstKey])) < ChunkLength)
    => /\ error # "NameError"
       /\ remainder = [k \in Keys |-> entry_remainder[k] \o chain(sample[k])]

\* C4: the remainder carry is FIFO.  The sequence a call processes is the
\* remainder the previous call left, in unchanged order, followed by the tokens of
\* the batch; and tokens leave in the order they entered the stream.
C4_RemainderFIFO ==
    /\ CallReturned =>
          \A k \in Keys :
             /\ IsPrefix(entry_remainder[k], chain(result[k]) \o remainder[k])
             /\ chain(result[k]) \o remainder[k] = entry_remainder[k] \o chain(sample[k])
    /\ Increasing(chain(lm_dataset["input_ids"]) \o remainder["input_ids"])

C4_Witness ==
    /\ CallReturned
    /\ Len(entry_remainder["input_ids"]) >= 1
    /\ Len(result["input_ids"]) >= 1
    /\ Len(sample["input_ids"]) >= 2

\* C5: after every returned chunk call the new remainder is the final partial
\* block: its length is (previous remainder + batch tokens) mod chunk_length,
\* below chunk_length, and it is the suffix of the combined sequence behind the
\* last emitted block.
C5_RemainderIsPartialBlock ==
    /\ \A k \in Keys : Len(remainder[k]) < ChunkLength
    /\ CallReturned =>
          \A k \in Keys :
             LET combined == entry_remainder[k] \o chain(sample[k])
                 emitted  == Len(result[k]) * ChunkLength
             IN  /\ Len(remainder[k]) = Len(combined) % ChunkLength
                 /\ emitted <= Len(combined)
                 /\ remainder[k] = [i \in 1..(Len(combined) - emitted) |->
                                      combined[emitted + i]]

C5_Witness ==
    /\ CallReturned
    /\ entry_remainder["input_ids"] # <<>>
    /\ remainder["input_ids"] # <<>>
    /\ remainder["input_ids"] # entry_remainder["input_ids"]
    /\ result["input_ids"] # <<>>

LabelsMatch(r) ==
    /\ Len(r["labels"]) = Len(r["input_ids"])
    /\ \A j \in DOMAIN r["input_ids"] :
          /\ Len(r["labels"][j]) = Len(r["input_ids"][j])
          /\ \A i \in DOMAIN r["input_ids"][j] : r["labels"][j][i] = r["input_ids"][j][i]

\* C6: in every result of chunk, labels has as many blocks as input_ids and
\* labels[j][i] equals input_ids[j][i] for every block j and position i.
C6_LabelsCopyInputIds == LabelsMatch(result) /\ LabelsMatch(lm_dataset)

C6_Witness == CallReturned /\ Len(result["labels"]) >= 2

\* C7: the steps happen in a fixed order.  The processed dataset is uploaded
\* before the training job is submitted; deployment starts only after the
\* training job has completed; the endpoint is queried only after it is deployed
\* and before it is deleted; delete_model and delete_endpoint come last.
C7_StepOrder ==
    /\ In("save_to_disk") => fed = Len(dataset) /\ error # "NameError"
    /\ In("fit") => Before("save_to_disk", "fit")
    /\ In("deploy") => Before("fit", "deploy") /\ job = "Completed"
    /\ In("predict") =>
          /\ Before("deploy", "predict")
          /\ endpoint # "none"
          /\ In("delete_model") => Before("predict", "delete_model")
          /\ In("delete_endpoint") => Before("predict", "delete_endpoint")
    /\ In("delete_model") =>
          \A i \in DOMAIN log : i > Pos("delete_model") => log[i] = "delete_endpoint"
    /\ In("delete_endpoint") => Pos("delete_endpoint") = Len(log)
    /\ \A i, j \in DOMAIN log : log[i] = log[j] => i = j

C7_Witness ==
    /\ pc = "done"
    /\ log = <<"save_to_disk", "fit", "deploy", "predict", "delete_model",
               "delete_endpoint">>

\* C8: teardown always happens.  A run that deployed the endpoint does not end
\* before the model and the endpoint are deleted, also when the test cell fails.
C8_TeardownAlways ==
    (pc \in {"done", "halted"} /\ endpoint # "none")
    => model = "deleted" /\ endpoint = "deleted"

\* the map over the dataset is over: a chunk call raised, or every row was fed
MapEnded == error = "NameError" \/ fed = Len(dataset)

\* C9: batch-partition independence.  However the rows are split into
\* consecutive batches, folding chunk over them gives the blocks and the final
\* remainder of a single chunk call on all rows at once.
C9_PartitionIndependence ==
    MapEnded =>
       LET once == chunk(Batch(dataset, 1, Len(dataset)), EmptyRemainder, ChunkLength)
       IN  /\ (error = "NameError") <=> once.raised
           /\ ~once.raised =>
                 /\ lm_dataset = once.result
                 /\ remainder = once.remainder

\* C10: the frame of a chunk call.  The call leaves the token lists of its batch
\* and the dataset unchanged, and the lists the previous remainder held are not
\* modified in place: the remainder is rebound.
C10_ChunkFrame ==
    [][pc = "call" =>
          /\ sample' = sample
          /\ dataset' = dataset
          /\ old_lists' = remainder]_vars

C10_Witness ==
    /\ CallReturned
    /\ old_lists["input_ids"] # <<>>
    /\ old_lists = entry_remainder
    /\ remainder # old_lists

\* C12: random sample index validity.  Every index randint(0, len(d)) can draw is
\* a valid index of d, so neither the templated-example print nor the selection
\* of the test sample ever fails with an IndexError.
C12_IndexAlwaysValid == error # "IndexError"

\* every sample has input_ids and attention_mask of equal length
SamplesAligned(d) ==
    \A i \in DOMAIN d : Len(d[i]["input_ids"]) = Len(d[i]["attention_mask"])

\* the attention mask values of rows 1..n of d, in order
MaskStream(d, n) == chain(Batch(d, 1, n)["attention_mask"])

\* C11: key alignment.  Provided every sample has input_ids and attention_mask of
\* equal length, the remainder's two lists have equal length, every call emits as
\* many attention_mask blocks as input_ids blocks, and every attention_mask value,
\* in the blocks and in the remainder, is the one of the token whose id stands at
\* the same position (ids are stream positions).
C11_KeyAlignment ==
    SamplesAligned(dataset) =>
       LET orig == MaskStream(dataset, Len(dataset)) IN
       /\ Len(remainder["input_ids"]) = Len(remainder["attention_mask"])
       /\ Len(result["input_ids"]) = Len(result["attention_mask"])
       /\ Len(lm_dataset["input_ids"]) = Len(lm_dataset["attention_mask"])
       /\ \A j \in DOMAIN lm_dataset["input_ids"] :
             /\ Len(lm_dataset["attention_mask"][j]) = Len(lm_dataset["input_ids"][j])
             /\ \A i \in DOMAIN lm_dataset["input_ids"][j] :
                   lm_dataset["attention_mask"][j][i] = orig[lm_dataset["input_ids"][j][i]]
       /\ \A i \in DOMAIN remainder["input_ids"] :
             remainder["attention_mask"][i] = orig[remainder["input_ids"][i]]

C11_Witness ==
    /\ CallReturned
    /\ entry_remainder["input_ids"] # <<>>
    /\ remainder["input_ids"] # <<>>
    /\ \E j \in DOMAIN lm_dataset["attention_mask"] :
          \E a, b \in DOMAIN lm_dataset["attention_mask"][j] :
             lm_dataset["attention_mask"][j][a] # lm_dataset["attention_mask"][j][b]

\* C13: prompt consistency between training and inference.  For every dialogue
\* and summary, the inference prompt is a strict prefix of the training text of
\* the same dialogue, and the training text is that prefix, then the summary,
\* then the eos token as its last element.
C13_PromptConsistency ==
    pc = "formatted" =>
       /\ IsPrefix(inputs, text)
       /\ Len(inputs) < Len(text)
       /\ text = inputs \o raw.summary \o <<EosToken>>
       /\ text[Len(text)] = EosToken

C13_Witness ==
    /\ pc = "formatted"
    /\ \E i \in DOMAIN raw.dialogue : raw.dialogue[i] = Separator
    /\ \E i \in DOMAIN raw.summary : raw.summary[i] = EosToken
    /\ Len(text) = Len(inputs) + Len(raw.summary) + 1

====
